---- MODULE Spec2Model ----
(***************************************************************************)
(* get-wallet-holdings: the enrichment pipeline of                         *)
(* src/get-wallet-holdings/__init__.py (main, get_alt_data_async,          *)
(* get_asset_id_async) as a state machine.                                 *)
(*                                                                         *)
(* One request is one behaviour.  main runs its synchronous part as a few  *)
(* steps (validation, inventory fetch, cache lookup, batch construction),  *)
(* then awaits asyncio.gather over the batch; the resolver sub-tasks       *)
(* interleave freely until all are done, then main merges and formats.     *)
(***************************************************************************)
EXTENDS Integers, Sequences, FiniteSets, TLC

(***************************************************************************)
(* State.                                                                  *)
(***************************************************************************)
VARIABLES
    req,              \* req.params
    env,              \* [db, alt]: POSTGRES_* all set; ALT_AUTH_TOKEN and ALT_COOKIE set
    pc,               \* where main is
    offset, limit,    \* lines 153-154
    tokens,           \* line 198
    cartel_data_map,  \* lines 204, 221, 271
    db_map,           \* cartel_data_map as the cache lookup left it (line 236)
    db_conn,          \* the psycopg2 connection: none, failed, open, closed
    db_queries,       \* cursor.execute calls
    me,               \* the inventory call of line 196: none, ok, failed
    tokens_to_fetch,  \* line 241
    tasks,            \* line 240, and each sub-task's own position and locals
    alt_calls,        \* posts to the valuation service: <<page position, operation>>
    result,           \* lines 319-325
    resp,             \* what the caller gets: a response, or an exception
    calc              \* lines 110-134 run on their own: the locals of the computation

vars ==
    << req, env, pc, offset, limit, tokens, cartel_data_map, db_map, db_conn,
       db_queries, me, tokens_to_fetch, tasks, alt_calls, result, resp, calc >>

(***************************************************************************)
(* Python values.  Every value that ends up in a token's output entry is a *)
(* record [t, v, w] so that values of different Python types compare:      *)
(*   None, a number v/w (an exact rational, w >= 1), the string "N/A",     *)
(*   a range string f"{v} - {w}", a link string built from asset id v.     *)
(***************************************************************************)
None == [t |-> "none", v |-> 0, w |-> 0]

Num(n) == [t |-> "num", v |-> n, w |-> 1]

NA == [t |-> "na", v |-> 0, w |-> 0]

RangeStr(lo, hi) == [t |-> "range", v |-> lo, w |-> hi]

LinkStr(id) == [t |-> "link", v |-> id, w |-> 0]

\* Python truthiness: None and the number 0 are falsy, non-empty strings truthy.
Truthy(x) == x.t # "none" /\ ~(x.t = "num" /\ x.v = 0)

\* Python's `x or y`.
PyOr(x, y) == IF Truthy(x) THEN x ELSE y

RECURSIVE Gcd(_, _)
Gcd(a, b) == IF b = 0 THEN a ELSE Gcd(b, a % b)

\* sum / len of a non-empty list of numbers, as an exact rational in lowest terms.
Ratio(s, n) ==
    LET g == Gcd(s, n) IN
    IF s = 0 THEN [t |-> "num", v |-> 0, w |-> 1]
    ELSE [t |-> "num", v |-> s \div g, w |-> n \div g]

(***************************************************************************)
(* Bounds of the model.                                                    *)
(***************************************************************************)
\* Longest inventory page the marketplace returns.
MaxPage == 2

\* Longest marketTransactions list and longest cardPops list of a body given
\* to the computation of lines 110-134 when it runs on its own.
MaxTxs == 5

MaxPops == 2

(***************************************************************************)
(* Program constants.                                                      *)
(***************************************************************************)
DefaultOffset == 0

DefaultLimit == 20

SupplyThreshold == 3000

WindowDays == 15

RecentSales == 4

(***************************************************************************)
(* Inputs.                                                                 *)
(***************************************************************************)
\* A query parameter or a JSON field that is not there.
Absent == "<absent>"

\* req.params: the raw offset and limit strings: an offset to parse with the
\* default limit, and each of the two not a number.
RawParams == { <<"07", Absent>>, <<"abc", Absent>>, <<"07", "abc">> }

Requests ==
    { [wallet |-> wl, offset |-> p[1], limit |-> p[2]] :
        wl \in {Absent, "wallet1"}, p \in RawParams }

\* int(s): the digit strings of the model and their values; anything else raises.
IsIntLiteral(s) == s \in {"07"}

IntOf(s) == IF s = "07" THEN 7 ELSE 0

\* A token of the page: its mintAddress, the attributes Grading ID, The Grade
\* and Grading Company, and what it gives to display (lines 291-294): name,
\* image, and the attribute GradeNum, which goes with The Grade.
Token(m, c, g, co) ==
    [mintAddress |-> m, cert |-> c, grade |-> g, company |-> co,
     name |-> "inv_name", image |-> "inv_img", grade_num |-> g]

\* The tokens a page is made of, by mintAddress and by the attributes
\* (Grading ID, The Grade, Grading Company): complete ones under each key,
\* one whose grade float() cannot parse, and one lacking each attribute.
\* Tokens of a page may share a mint, or both lack it.
Tokens ==
    { Token("m1", "c1", "9", "PSA"),
      Token("m2", "c2", "9.5", "BGS"),
      Token(Absent, "c1", "9", "PSA"),
      Token("m1", "c1", "abc", "PSA"),
      Token("m2", Absent, "9", "PSA"),
      Token(Absent, "c1", Absent, "PSA"),
      Token("m1", "c1", "9", Absent) }

RECURSIVE SeqsUpTo(_, _)
SeqsUpTo(S, n) ==
    IF n = 0 THEN { <<>> }
    ELSE LET shorter == SeqsUpTo(S, n - 1) IN
         shorter \cup { Append(s, x) : s \in { q \in shorter : Len(q) = n - 1 }, x \in S }

\* response.json() of the inventory call: a page of tokens.
Pages == SeqsUpTo(Tokens, MaxPage)

\* Rows of the listings table, as cartel_data_map stores them (lines 221-232):
\* a fully valued row (valuation 100, supply 50) and a row of nulls and zeros.
\* The text columns hold a string, NULL (Absent) or the empty string.
FullRow ==
    [alt_value |-> Num(100), cartel_avg |-> Num(90), supply |-> Num(50),
     alt_asset_id |-> Num(7), lower |-> Num(95), upper |-> Num(105),
     name |-> "db_name", grade |-> "db_grade", grade_num |-> "db_num",
     img_url |-> "db_img"]

SparseRow ==
    [alt_value |-> Num(0), cartel_avg |-> None, supply |-> None,
     alt_asset_id |-> None, lower |-> None, upper |-> Num(105),
     name |-> Absent, grade |-> "", grade_num |-> Absent, img_url |-> "db_img"]

DbRows == {FullRow, SparseRow}

\* The "alt_range" expression of line 226.
RowRange(row) ==
    IF row.lower # None /\ row.upper # None
    THEN RangeStr(row.lower.v, row.upper.v) ELSE None

\* One cartel_data_map entry built from a row (lines 221-232).
RowEntry(row) ==
    [alt_value |-> row.alt_value, cartel_avg |-> row.cartel_avg,
     supply |-> row.supply, alt_asset_id |-> row.alt_asset_id,
     alt_range |-> RowRange(row),
     db_name |-> row.name, db_grade |-> row.grade,
     db_grade_num |-> row.grade_num, db_img_url |-> row.img_url]

(***************************************************************************)
(* The valuation service.                                                  *)
(***************************************************************************)
\* What one identity post (operation Cert) can come back with.
IdOutcomes == {"ok", "non200", "nofield", "exc"}

\* The asset id the service holds for a certificate number.
AssetOf(cert) == IF cert = "c1" THEN 71 ELSE 72

\* f"{float(grade):.1f}" (lines 89, 97, 118); "" stands for float() raising.
FormatGrade(grade) ==
    CASE grade = "9" -> "9.0"
      [] grade = "9.5" -> "9.5"
      [] OTHER -> ""

\* cardPops of a details body: [gradingCompany, gradeNumber, count].
Pops ==
    << [gradingCompany |-> "BGS", gradeNumber |-> "9.0", count |-> 9000],
       [gradingCompany |-> "PSA", gradeNumber |-> "9", count |-> 7],
       [gradingCompany |-> "PSA", gradeNumber |-> "9.0", count |-> 50],
       [gradingCompany |-> "PSA", gradeNumber |-> "9.0", count |-> 60],
       [gradingCompany |-> "BGS", gradeNumber |-> "9.5", count |-> 4000] >>

\* details_response.json(): a full body, a body whose asset is null (every
\* field then defaults), and a body the parsing of lines 110-120 raises on.
FullBody ==
    [malformed |-> FALSE, value |-> Num(120), lower |-> Num(5), upper |-> Num(9),
     pops |-> Pops]

NullBody ==
    [malformed |-> FALSE, value |-> None, lower |-> None, upper |-> None, pops |-> << >>]

BadBody ==
    [malformed |-> TRUE, value |-> None, lower |-> None, upper |-> None, pops |-> << >>]

\* marketTransactions: [age, hour, price]: the transaction's timestamp is
\* `age` calendar days before today, at `hour` o'clock.
Tx(age, hour, price) == [age |-> age, hour |-> hour, price |-> price]

TxList == << Tx(1, 0, 10), Tx(1, 18, 12), Tx(2, 9, 20), Tx(3, 9, 16), Tx(20, 9, 18) >>

\* datetime.now() (line 124): exactly midnight, or any later time of the day.
Clocks == {"midnight", "daytime"}

\* trans_response.json(): a list, the empty list, and a body that raises
\* (asset null, or a price float() cannot parse).
SomeTxs == [malformed |-> FALSE, txs |-> TxList]

NoTxs == [malformed |-> FALSE, txs |-> << >>]

BadTxs == [malformed |-> TRUE, txs |-> << >>]

\* What the two detail posts of one sub-task answer, once both returned:
\* the status codes and the bodies, and the clock the record is computed at.
Answers ==
    { [ds |-> 200, ts |-> 200, body |-> FullBody, tb |-> SomeTxs, now |-> "daytime"],
      [ds |-> 200, ts |-> 200, body |-> NullBody, tb |-> NoTxs, now |-> "midnight"],
      [ds |-> 500, ts |-> 200, body |-> FullBody, tb |-> SomeTxs, now |-> "daytime"],
      [ds |-> 200, ts |-> 500, body |-> FullBody, tb |-> SomeTxs, now |-> "daytime"],
      [ds |-> 200, ts |-> 200, body |-> BadBody, tb |-> SomeTxs, now |-> "daytime"],
      [ds |-> 200, ts |-> 200, body |-> FullBody, tb |-> BadTxs, now |-> "daytime"] }

(***************************************************************************)
(* get_alt_data_async, lines 110-144: the record computed from the two     *)
(* bodies once both posts have returned 200.                               *)
(***************************************************************************)
\* Lines 116-120 without the grade test: the first entry of the company.
RECURSIVE SupplyOfCompany(_, _, _, _)
SupplyOfCompany(pops, company, fgrade, i) ==
    IF i > Len(pops) THEN 0
    ELSE IF pops[i].gradingCompany = company
         THEN pops[i].count
         ELSE SupplyOfCompany(pops, company, fgrade, i + 1)

\* Lines 116-120: the count of the first population entry of this company
\* whose grade, as a string, is the formatted grade; 0 when there is none.
RECURSIVE SupplyFrom(_, _, _, _)
SupplyFrom(pops, company, fgrade, i) ==
    IF i > Len(pops) THEN 0
    ELSE IF pops[i].gradingCompany = company /\ pops[i].gradeNumber = fgrade
         THEN pops[i].count
         ELSE SupplyFrom(pops, company, fgrade, i + 1)

RECURSIVE SumPrices(_, _)
SumPrices(txs, n) == IF n = 0 THEN 0 ELSE SumPrices(txs, n - 1) + txs[n].price

Min(a, b) == IF a < b THEN a ELSE b

\* Lines 133-134 without the slice: the mean of the whole list.
RecentAverageAll(txs) ==
    IF Len(txs) = 0 THEN Num(0) ELSE Ratio(SumPrices(txs, Len(txs)), Len(txs))

\* Lines 133-134: mean of the first four transactions, 0.0 for none.
RecentAverage(txs) ==
    LET n == Min(RecentSales, Len(txs)) IN
    IF n = 0 THEN Num(0) ELSE Ratio(SumPrices(txs, n), n)

\* Line 126: tx['date'].split('T')[0] keeps the calendar day of the timestamp
\* and drops its time of day.
TxDay(tx) == tx.age

\* Line 127 without the comparison: every transaction is taken.
InWindowAlways(tx, now) == TRUE

\* Line 127: tx_date >= fifteen_days_ago.  tx_date is midnight of the
\* transaction's day and fifteen_days_ago is now minus 15 days, so the day
\* that lies 15 days back is in only when now is exactly midnight.
InWindow(tx, now) ==
    IF now = "midnight" THEN TxDay(tx) <= WindowDays ELSE TxDay(tx) < WindowDays

\* Lines 125-128: daily_prices[day], the in-window prices of one day.
DayTxs(txs, day, now) ==
    SelectSeq(txs, LAMBDA tx : InWindow(tx, now) /\ TxDay(tx) = day)

\* a/b + c/d and (a/b)/n on exact rationals.
RAdd(x, y) == Ratio(x.v * y.w + y.v * x.w, x.w * y.w)

RDiv(x, n) == Ratio(x.v, x.w * n)

RECURSIVE SumDailyAverages(_, _, _)
SumDailyAverages(txs, days, now) ==
    IF days = {} THEN Num(0)
    ELSE LET d == CHOOSE x \in days : TRUE
             day_txs == DayTxs(txs, d, now)
         IN  RAdd(Ratio(SumPrices(day_txs, Len(day_txs)), Len(day_txs)),
                  SumDailyAverages(txs, days \ {d}, now))

\* Lines 124-131: mean of the daily means of the last 15 days, 0.0 for none.
WindowAverage(txs, now) ==
    LET days == { TxDay(txs[i]) : i \in { j \in 1..Len(txs) : InWindow(txs[j], now) } } IN
    IF days = {} THEN Num(0)
    ELSE RDiv(SumDailyAverages(txs, days, now), Cardinality(days))

\* Lines 122-134.
AveragePrice(txs, supply, now) ==
    IF supply > SupplyThreshold THEN WindowAverage(txs, now) ELSE RecentAverage(txs)

\* "No data for this token" and a record, as the value of an awaited sub-task.
NoData == << >>

Some(r) == << r >>

\* Lines 136-144.
AltRecord(asset_id, grade, company, body, txs, now) ==
    LET supply == SupplyFrom(body.pops, company, FormatGrade(grade), 1) IN
    [alt_asset_id |-> Num(asset_id),
     alt_value |-> PyOr(body.value, Num(0)),
     avg_price |-> AveragePrice(txs, supply, now),
     supply |-> Num(supply),
     lower_bound |-> PyOr(body.lower, Num(0)),
     upper_bound |-> PyOr(body.upper, Num(0))]

\* Lines 36-45 without the handler: the post's exception leaves the function.
GetAssetIdUncaught(outcome) == outcome = "exc"

\* Lines 36-45: whether get_asset_id_async lets the post's exception out
\* (`except Exception` catches every one of them).
GetAssetIdRaises(outcome) == FALSE

\* Lines 84, 145-147: whether get_alt_data_async lets an exception of its
\* try block out (`except Exception` catches every one of them).
AltDataRaises(failed) == FALSE

\* Lines 107-147: what the sub-task resolves to once both posts returned.
AltDataResult(task, a) ==
    IF a.ds # 200 \/ a.ts # 200 THEN NoData
    ELSE IF a.body.malformed \/ a.tb.malformed THEN NoData
    ELSE Some(AltRecord(task.asset, task.grade, task.company, a.body, a.tb.txs, a.now))

\* Where lines 107-147 return: at the status check, in the handler, at the end.
ReturnLine(a) ==
    IF a.ds # 200 \/ a.ts # 200 THEN "status"
    ELSE IF a.body.malformed \/ a.tb.malformed THEN "body"
    ELSE "record"

\* Lines 110-134 raise on a malformed body, once both statuses are 200.
BodyRaises(a) == a.ds = 200 /\ a.ts = 200 /\ (a.body.malformed \/ a.tb.malformed)

(***************************************************************************)
(* main, lines 201-277: cache keys, the fetch batch, the merge.            *)
(***************************************************************************)
\* Line 202: the mints of the page that are there.
TokenMints(page) ==
    { page[i].mintAddress : i \in { j \in 1..Len(page) : page[j].mintAddress # Absent } }

EmptyMap == [k \in {} |-> None]

\* Line 245 without its test: every token is taken for a cache miss.
CachedNever(mint, map) == FALSE

\* Line 245: `mint in cartel_data_map`.
Cached(mint, map) == mint \in DOMAIN map

\* Lines 243-246: the page positions that are not skipped, in page order.
RECURSIVE FetchIndexes(_, _, _)
FetchIndexes(page, map, i) ==
    IF i > Len(page) THEN << >>
    ELSE IF Cached(page[i].mintAddress, map)
         THEN FetchIndexes(page, map, i + 1)
         ELSE << i >> \o FetchIndexes(page, map, i + 1)

\* Line 259: `if cert_id and grade and company`.
HasGrading(token) ==
    token.cert # Absent /\ token.grade # Absent /\ token.company # Absent

\* Lines 259-264: the coroutine appended for the token at page position i:
\* a resolver call, or asyncio.sleep(0) as a placeholder.
TaskFor(page, i) ==
    [kind |-> IF HasGrading(page[i]) THEN "alt" ELSE "sleep",
     idx |-> i, cert |-> page[i].cert, grade |-> page[i].grade,
     company |-> page[i].company, pc |-> "new", asset |-> 0,
     det |-> "idle", trn |-> "idle", res |-> NoData, why |-> ""]

\* Lines 271-277: the cartel_data_map entry built from a fetched record.  It
\* has no db_* key: c_data.get reads each of them as None.
FetchedEntry(res) ==
    [alt_value |-> res.alt_value, cartel_avg |-> res.avg_price,
     supply |-> res.supply, alt_asset_id |-> res.alt_asset_id,
     alt_range |-> RangeStr(res.lower_bound.v, res.upper_bound.v),
     db_name |-> Absent, db_grade |-> Absent,
     db_grade_num |-> Absent, db_img_url |-> Absent]

Put(map, k, e) == [x \in DOMAIN map \cup {k} |-> IF x = k THEN e ELSE map[x]]

\* Line 270 indexing the page instead of tokens_to_fetch.
SlotKeyFromPage(keys, i) == tokens[i].mintAddress

\* Line 270: the key a batch slot's record is stored under.
SlotKey(keys, i) == keys[i]

\* Lines 268-277: results are stored in batch order under tokens_to_fetch[i].
RECURSIVE MergeResults(_, _, _, _)
MergeResults(map, results, keys, i) ==
    IF i > Len(results) THEN map
    ELSE MergeResults(
           IF results[i] # NoData
           THEN Put(map, SlotKey(keys, i), FetchedEntry(results[i][1]))
           ELSE map,
           results, keys, i + 1)

(***************************************************************************)
(* main, lines 280-317: one formatted token.                               *)
(***************************************************************************)
\* Line 297: cartel_data_map.get(mint, {}), a missing field reading as None.
NoEntry ==
    [alt_value |-> None, cartel_avg |-> None, supply |-> None,
     alt_asset_id |-> None, alt_range |-> None,
     db_name |-> Absent, db_grade |-> Absent,
     db_grade_num |-> Absent, db_img_url |-> Absent]

EntryOf(map, mint) == IF mint \in DOMAIN map THEN map[mint] ELSE NoEntry

\* Lines 313-315: `value or "N/A"`.
Shown(value) == PyOr(value, NA)

\* Lines 304-305, 316.
AltLink(alt_asset_id) ==
    PyOr(IF Truthy(alt_asset_id) THEN LinkStr(alt_asset_id.v) ELSE None, NA)

\* The valuation fields of an output entry, from a cartel_data_map entry.
ShownEntry(c_data) ==
    [supply |-> c_data.supply,
     alt_value |-> Shown(c_data.alt_value),
     alt_range |-> Shown(c_data.alt_range),
     cartel_avg |-> Shown(c_data.cartel_avg),
     alt_link |-> AltLink(c_data.alt_asset_id)]

\* Lines 299-302 always taking the inventory's value.
StrOrInventory(x, y) == y

\* Lines 299-302: `x or y` on strings: None and the empty string are falsy.
StrOr(x, y) == IF x # Absent /\ x # "" THEN x ELSE y

\* Lines 291-317.
FormatToken(token, map) ==
    LET c_data == EntryOf(map, token.mintAddress) IN
    [mint |-> token.mintAddress,
     val |-> ShownEntry(c_data),
     name |-> StrOr(c_data.db_name, token.name),
     grade |-> StrOr(c_data.db_grade, token.grade),
     grading_number |-> StrOr(c_data.db_grade_num, token.grade_num),
     img |-> StrOr(c_data.db_img_url, token.image)]

\* Lines 280-317 leaving out the tokens that have no valuation entry.
FormatTokensValuedOnly(page, map) ==
    LET valued == SelectSeq(page, LAMBDA tk : tk.mintAddress \in DOMAIN map) IN
    [i \in 1..Len(valued) |-> FormatToken(valued[i], map)]

\* Lines 280-317: formatted_tokens, one entry per token in page order.
FormatTokens(page, map) == [i \in 1..Len(page) |-> FormatToken(page[i], map)]

(***************************************************************************)
(* Initial state.                                                          *)
(***************************************************************************)
Pending == [kind |-> "pending", status_code |-> 0]

Response(code) == [kind |-> "response", status_code |-> code]

\* An exception main does not catch: the Functions host answers for it.
Unhandled == [kind |-> "exception", status_code |-> 0]

NoResult == [tokens |-> << >>, count |-> 0, offset |-> 0, limit |-> 0]

\* The computation of lines 110-134 is not running on its own.
NoCalc ==
    [pc |-> "off", pops |-> << >>, company |-> "", grade |-> "", supply |-> 0,
     txs |-> << >>, now |-> "", avg_price |-> Num(0)]

Init ==
    /\ req \in Requests
    /\ env \in [db : BOOLEAN, alt : BOOLEAN]
    /\ pc = "start"
    /\ offset = 0
    /\ limit = 0
    /\ tokens = << >>
    /\ cartel_data_map = EmptyMap
    /\ db_map = EmptyMap
    /\ db_conn = "none"
    /\ db_queries = 0
    /\ me = "none"
    /\ tokens_to_fetch = << >>
    /\ tasks = << >>
    /\ alt_calls = {}
    /\ result = NoResult
    /\ resp = Pending
    /\ calc = NoCalc

(***************************************************************************)
(* main, lines 152-160: parameters and validation.                         *)
(***************************************************************************)
\* int(req.params.get(name, default)) raises ValueError on a non-number.
IntRaises(raw) == raw # Absent /\ ~IsIntLiteral(raw)

ParseInt(raw, default) == IF raw = Absent THEN default ELSE IntOf(raw)

\* Line 156: `if not wallet_address`.
WalletMissing(r) == r.wallet = Absent

\* Lines 152-160.  The two int() calls run before the wallet check and
\* outside the try block of line 169.
Validate ==
    /\ pc = "start"
    /\ IF IntRaises(req.offset) \/ IntRaises(req.limit)
       THEN /\ resp' = Unhandled
            /\ pc' = "done"
            /\ UNCHANGED << offset, limit >>
       ELSE /\ offset' = ParseInt(req.offset, DefaultOffset)
            /\ limit' = ParseInt(req.limit, DefaultLimit)
            /\ IF WalletMissing(req)
               THEN resp' = Response(400) /\ pc' = "done"
               ELSE resp' = resp /\ pc' = "inventory"
    /\ UNCHANGED << calc, req, env, tokens, cartel_data_map, db_map, db_conn, db_queries,
                    me, tokens_to_fetch, tasks, alt_calls, result >>

(***************************************************************************)
(* main, lines 196-198 and 338-343: the inventory fetch.                   *)
(***************************************************************************)
InventoryFails ==
    /\ pc = "inventory"
    /\ me' = "failed"
    /\ resp' = Response(500)
    /\ pc' = "done"
    /\ UNCHANGED << calc, req, env, offset, limit, tokens, cartel_data_map, db_map, db_conn,
                    db_queries, tokens_to_fetch, tasks, alt_calls, result >>

InventoryReturns ==
    /\ pc = "inventory"
    /\ me' = "ok"
    /\ tokens' \in Pages
    /\ pc' = "cache"
    /\ UNCHANGED << calc, req, env, offset, limit, cartel_data_map, db_map, db_conn,
                    db_queries, tokens_to_fetch, tasks, alt_calls, result, resp >>

(***************************************************************************)
(* main, lines 204-236: the cache lookup.                                  *)
(***************************************************************************)
\* Line 207 without `token_mints and`: only the settings are tested.
CacheAttemptedAnyPage == env.db

\* Line 207.
CacheAttempted == TokenMints(tokens) # {} /\ env.db

\* Lines 235-236 re-raising: the handler of line 338 answers 500.
DbErrorEscapes == TRUE

\* Lines 235-236: whether a database error ends the request (it is logged,
\* and the request goes on with the empty map).
DbErrorAborts == FALSE

CacheDone(map, conn, queries) ==
    /\ cartel_data_map' = map
    /\ db_map' = map
    /\ db_conn' = conn
    /\ db_queries' = queries
    /\ IF conn \in {"failed", "open"} /\ DbErrorAborts
       THEN resp' = Response(500) /\ pc' = "done"
       ELSE resp' = resp /\ pc' = "batch"
    /\ UNCHANGED << calc, req, env, offset, limit, tokens, me, tokens_to_fetch,
                    tasks, alt_calls, result >>

\* Line 207 false: no connection is made.
CacheSkipped ==
    /\ pc = "cache"
    /\ ~CacheAttempted
    /\ CacheDone(EmptyMap, db_conn, db_queries)

\* psycopg2.connect raises (line 209); caught at line 235.
CacheConnectFails ==
    /\ pc = "cache"
    /\ CacheAttempted
    /\ CacheDone(EmptyMap, "failed", db_queries)

\* cursor.execute or fetchall raises (lines 218-219); caught at line 235,
\* the close calls of lines 233-234 are not reached.
CacheQueryFails ==
    /\ pc = "cache"
    /\ CacheAttempted
    /\ CacheDone(EmptyMap, "open", db_queries + 1)

\* Lines 209-234: the rows of the page's mints that the table holds.
CacheReturns ==
    /\ pc = "cache"
    /\ CacheAttempted
    /\ \E found \in SUBSET TokenMints(tokens) :
         \E rows \in [found -> DbRows] :
           CacheDone([m \in found |-> RowEntry(rows[m])], "closed", db_queries + 1)

(***************************************************************************)
(* main, lines 239-266: the fetch batch.  No coroutine runs before         *)
(* asyncio.gather is awaited at line 267.                                  *)
(***************************************************************************)
BuildBatch ==
    /\ pc = "batch"
    /\ LET idxs == FetchIndexes(tokens, cartel_data_map, 1) IN
       /\ tokens_to_fetch' = [j \in 1..Len(idxs) |-> tokens[idxs[j]].mintAddress]
       /\ tasks' = [j \in 1..Len(idxs) |-> TaskFor(tokens, idxs[j])]
       /\ pc' = IF Len(idxs) = 0 THEN "format" ELSE "gather"
    /\ UNCHANGED << calc, req, env, offset, limit, tokens, cartel_data_map, db_map, db_conn,
                    db_queries, me, alt_calls, result, resp >>

(***************************************************************************)
(* The sub-tasks of the batch, while main awaits asyncio.gather.           *)
(***************************************************************************)
TaskVars ==
    << calc, req, env, pc, offset, limit, tokens, cartel_data_map, db_map, db_conn,
       db_queries, me, tokens_to_fetch, result, resp >>

\* The sub-task returns res; why records the line it returned at.
Resolved(task, res, why) == [task EXCEPT !.pc = "done", !.res = res, !.why = why]

Raised(task) == [task EXCEPT !.pc = "raised"]

\* Line 48 without its test: the resolver goes on without credentials.
CredsNeverMissing == FALSE

\* Line 48: `if not AUTH_TOKEN or not COOKIE`, on the values read at lines 15-16.
CredsMissing == ~env.alt

\* Lines 48-51, and asyncio.sleep(0) of line 264: the sub-task starts.  Without
\* credentials it returns None at once; otherwise it posts the identity query.
TaskStart ==
    /\ pc = "gather"
    /\ \E i \in 1..Len(tasks) :
         /\ tasks[i].pc = "new"
         /\ IF tasks[i].kind = "sleep" \/ CredsMissing
            THEN /\ tasks' = [tasks EXCEPT ![i] =
                          Resolved(@, NoData, IF @.kind = "sleep" THEN "placeholder" ELSE "creds")]
                 /\ alt_calls' = alt_calls
            ELSE /\ tasks' = [tasks EXCEPT ![i].pc = "id"]
                 /\ alt_calls' = alt_calls \cup { << tasks[i].idx, "Cert" >> }
    /\ UNCHANGED TaskVars

\* Lines 85-105, after an asset id: the payloads are built (float(grade) may
\* raise) and both detail posts are issued together.
DetailPosts(task) ==
    LET with_id == [task EXCEPT !.asset = AssetOf(task.cert)] IN
    IF FormatGrade(task.grade) = ""
    THEN IF AltDataRaises("grade") THEN Raised(with_id) ELSE Resolved(with_id, NoData, "grade")
    ELSE [with_id EXCEPT !.pc = "detail", !.det = "flight", !.trn = "flight"]

\* Lines 37-45 and 52: the identity post comes back.
IdentityReturns ==
    /\ pc = "gather"
    /\ \E i \in 1..Len(tasks) :
         /\ tasks[i].pc = "id"
         /\ \E outcome \in IdOutcomes :
              LET after == IF GetAssetIdRaises(outcome) THEN Raised(tasks[i])
                           ELSE IF outcome # "ok" THEN Resolved(tasks[i], NoData, "identity")
                           ELSE DetailPosts(tasks[i])
              IN  /\ tasks' = [tasks EXCEPT ![i] = after]
                  /\ alt_calls' =
                       IF after.pc = "detail"
                       THEN alt_calls \cup { << tasks[i].idx, "AssetDetails" >>,
                                             << tasks[i].idx, "AssetMarketTransactions" >> }
                       ELSE alt_calls
    /\ UNCHANGED TaskVars

\* Lines 102-105: the inner gather has handed back both responses.
BothReturned(task) == task.det = "ret" /\ task.trn = "ret"

\* Lines 102-105 with a sub-task that stays where it is when a post raises.
AfterOnePostWaits(task) == task

\* Lines 102-105, 145-147: a post came back and the other has not returned.
\* The inner gather hands the first exception to the sub-task as soon as a
\* post raises, the other post still running; otherwise the sub-task waits.
AfterOnePost(task) ==
    IF task.det = "exc" \/ task.trn = "exc"
    THEN IF AltDataRaises("post") THEN Raised(task) ELSE Resolved(task, NoData, "post")
    ELSE task

\* Lines 107-147: both posts returned, answering a; the sub-task runs to its
\* return.
AfterBothPosts(task, a) ==
    IF BodyRaises(a) /\ AltDataRaises("body") THEN Raised(task)
    ELSE Resolved(task, AltDataResult(task, a), ReturnLine(a))

\* The sub-task i after a post came back, leaving it as `task`.
PostReturned(i, task) ==
    IF BothReturned(task)
    THEN \E a \in Answers : tasks' = [tasks EXCEPT ![i] = AfterBothPosts(task, a)]
    ELSE tasks' = [tasks EXCEPT ![i] = AfterOnePost(task)]

\* Line 103: the details post returns a response, or raises (timeout, network).
DetailsReturns ==
    /\ pc = "gather"
    /\ \E i \in 1..Len(tasks) :
         /\ tasks[i].pc = "detail"
         /\ tasks[i].det = "flight"
         /\ \E r \in {"ret", "exc"} : PostReturned(i, [tasks[i] EXCEPT !.det = r])
    /\ UNCHANGED << TaskVars, alt_calls >>

\* Line 104: the transactions post returns a response, or raises.
TransReturns ==
    /\ pc = "gather"
    /\ \E i \in 1..Len(tasks) :
         /\ tasks[i].pc = "detail"
         /\ tasks[i].trn = "flight"
         /\ \E r \in {"ret", "exc"} : PostReturned(i, [tasks[i] EXCEPT !.trn = r])
    /\ UNCHANGED << TaskVars, alt_calls >>

(***************************************************************************)
(* main, lines 267-277: gather returns the results in batch order once     *)
(* every sub-task is done, or raises the first exception of a sub-task,    *)
(* which the handler of line 338 turns into a 500.                         *)
(***************************************************************************)
\* Line 267 returning as soon as one sub-task is done.
FirstDone == \E i \in 1..Len(tasks) : tasks[i].pc = "done"

\* Line 267: asyncio.gather returns when every sub-task is done.
AllDone == \A i \in 1..Len(tasks) : tasks[i].pc = "done"

SomeRaised == \E i \in 1..Len(tasks) : tasks[i].pc = "raised"

GatherReturns ==
    /\ pc = "gather"
    /\ AllDone \/ SomeRaised
    /\ IF SomeRaised
       THEN /\ resp' = Response(500)
            /\ pc' = "done"
            /\ UNCHANGED cartel_data_map
       ELSE /\ cartel_data_map' =
                 MergeResults(cartel_data_map, [i \in 1..Len(tasks) |-> tasks[i].res],
                              tokens_to_fetch, 1)
            /\ pc' = "format"
            /\ UNCHANGED resp
    /\ UNCHANGED << calc, req, env, offset, limit, tokens, db_map, db_conn, db_queries,
                    me, tokens_to_fetch, tasks, alt_calls, result >>

(***************************************************************************)
(* main, lines 280-336: the response.                                      *)
(***************************************************************************)
FormatResponse ==
    /\ pc = "format"
    /\ LET formatted_tokens == FormatTokens(tokens, cartel_data_map) IN
       result' = [tokens |-> formatted_tokens, count |-> Len(formatted_tokens),
                  offset |-> offset, limit |-> limit]
    /\ resp' = Response(200)
    /\ pc' = "done"
    /\ UNCHANGED << calc, req, env, offset, limit, tokens, cartel_data_map, db_map, db_conn,
                    db_queries, me, tokens_to_fetch, tasks, alt_calls >>

Next ==
    \/ Validate
    \/ InventoryFails
    \/ InventoryReturns
    \/ CacheSkipped
    \/ CacheConnectFails
    \/ CacheQueryFails
    \/ CacheReturns
    \/ BuildBatch
    \/ TaskStart
    \/ IdentityReturns
    \/ DetailsReturns
    \/ TransReturns
    \/ GatherReturns
    \/ FormatResponse

Spec == Init /\ [][Next]_vars

\* Once the batch is reached everything that remains keeps running: main
\* itself (lines 239-336), the event loop that starts every sub-task of the
\* gather, and each post of the client of line 239, which returns or raises
\* within its timeout of 10 seconds.  Nothing is assumed of the inventory
\* call and of the cache store, which have no timeout.
Fairness ==
    /\ WF_vars(BuildBatch)
    /\ WF_vars(TaskStart)
    /\ WF_vars(IdentityReturns)
    /\ WF_vars(DetailsReturns)
    /\ WF_vars(TransReturns)
    /\ WF_vars(GatherReturns)
    /\ WF_vars(FormatResponse)

FairSpec == Spec /\ Fairness

(***************************************************************************)
(* get_alt_data_async, lines 110-134, on their own: the supply selection   *)
(* and the price aggregation applied to every details body, transaction    *)
(* list and clock of a bounded set.  No request is running.                *)
(***************************************************************************)
RECURSIVE DistinctSeqs(_, _)
DistinctSeqs(S, n) ==
    IF n = 0 THEN { << >> }
    ELSE LET shorter == DistinctSeqs(S, n - 1) IN
         shorter \cup
         UNION { { Append(q, x) : x \in S \ { q[i] : i \in 1..Len(q) } } :
                   q \in { r \in shorter : Len(r) = n - 1 } }

\* The transactions a list is made of.  Two share a day, one is dated 15 days
\* back and one 16 days back.
TxPool ==
    { Tx(1, 0, 10), Tx(1, 18, 12), Tx(2, 9, 14), Tx(15, 18, 16), Tx(16, 0, 18),
      Tx(2, 9, 20) }

\* asset.marketTransactions: the pool's transactions in every order.
TxLists == DistinctSeqs(TxPool, MaxTxs)

Pop(company, gradeNumber, count) ==
    [gradingCompany |-> company, gradeNumber |-> gradeNumber, count |-> count]

\* The population entries a cardPops list is made of: str(gradeNumber) is
\* "9.0" or "9", counts lie on both sides of the threshold and on it.
PopPool ==
    { Pop("PSA", "9.0", 500), Pop("PSA", "9.0", 4000), Pop("BGS", "9.0", 3000),
      Pop("BGS", "9.0", 3001), Pop("PSA", "9", 9000) }

PopLists == DistinctSeqs(PopPool, MaxPops)

\* The company the resolver is called with; the grade is "9".
CalcCompanies == {"PSA", "BGS"}

\* The request's variables while the computation runs on its own.
NoRequest ==
    /\ req = [wallet |-> Absent, offset |-> Absent, limit |-> Absent]
    /\ env = [db |-> FALSE, alt |-> TRUE]
    /\ pc = "off"
    /\ offset = 0
    /\ limit = 0
    /\ tokens = << >>
    /\ cartel_data_map = EmptyMap
    /\ db_map = EmptyMap
    /\ db_conn = "none"
    /\ db_queries = 0
    /\ me = "none"
    /\ tokens_to_fetch = << >>
    /\ tasks = << >>
    /\ alt_calls = {}
    /\ result = NoResult
    /\ resp = Pending

RequestVars ==
    << req, env, pc, offset, limit, tokens, cartel_data_map, db_map, db_conn,
       db_queries, me, tokens_to_fetch, tasks, alt_calls, result, resp >>

\* Lines 110-114: both bodies are parsed, nothing is computed yet.
CalcInit ==
    /\ NoRequest
    /\ \E pops \in PopLists, company \in CalcCompanies :
         calc = [NoCalc EXCEPT !.pc = "details", !.pops = pops,
                                !.company = company, !.grade = "9"]

\* Lines 116-120.
SelectSupply ==
    /\ calc.pc = "details"
    /\ calc' = [calc EXCEPT
                  !.pc = "supply",
                  !.supply = SupplyFrom(calc.pops, calc.company, FormatGrade(calc.grade), 1)]
    /\ UNCHANGED RequestVars

\* Lines 122-134, for the transaction list and the clock at hand.
AggregatePrice ==
    /\ calc.pc = "supply"
    /\ \E txs \in TxLists, now \in Clocks :
         calc' = [calc EXCEPT
                    !.pc = "price", !.txs = txs, !.now = now,
                    !.avg_price = AveragePrice(txs, calc.supply, now)]
    /\ UNCHANGED RequestVars

CalcNext ==
    \/ SelectSupply
    \/ AggregatePrice

CalcSpec == CalcInit /\ [][CalcNext]_vars

(***************************************************************************)
(* Properties.                                                             *)
(***************************************************************************)
Succeeded == pc = "done" /\ resp = Response(200)

PageIndexes == 1..Len(tokens)

BatchSlots == 1..Len(tasks)

\* The token at page position i has a record in the cache lookup result.
InCache(i) == tokens[i].mintAddress \in DOMAIN db_map

\* C1: a token whose mintAddress is a key of the cache lookup result never has
\* a valuation-service call issued for it (no Cert, AssetDetails or
\* AssetMarketTransactions post) and never gets a slot in the fetch batch.
C1_NoFetchForCached ==
    \A i \in PageIndexes :
        InCache(i) =>
            /\ \A call \in alt_calls : call[1] # i
            /\ \A j \in BatchSlots : tasks[j].idx # i

\* A finished request with a cached token while calls went out for another.
C1_Witness ==
    /\ Succeeded
    /\ \E i \in PageIndexes : InCache(i)
    /\ alt_calls # {}

\* C2: the cartel_data_map entry of a cached mint stays the cache record
\* through the merge, and the valuation fields of every output entry of a
\* cached token are those of the cache record, whatever the batch returned.
C2_CachePrecedence ==
    /\ \A m \in DOMAIN db_map :
           pc \notin {"start", "inventory", "cache"} =>
               m \in DOMAIN cartel_data_map /\ cartel_data_map[m] = db_map[m]
    /\ Succeeded =>
           \A i \in PageIndexes :
               InCache(i) =>
                   result.tokens[i].val = ShownEntry(db_map[tokens[i].mintAddress])

\* A finished request with a cached token and a sibling that fetched a record.
C2_Witness ==
    /\ Succeeded
    /\ \E i \in PageIndexes : InCache(i)
    /\ \E j \in BatchSlots : tasks[j].res # NoData

\* C3: a successful response lists one entry per token of the page, in page
\* order, for every completion order of the sub-tasks; count is the number of
\* entries, offset and limit are the request's.
C3_OrderAndEcho ==
    Succeeded =>
        /\ Len(result.tokens) = Len(tokens)
        /\ \A i \in PageIndexes : result.tokens[i].mint = tokens[i].mintAddress
        /\ result.count = Len(result.tokens)
        /\ result.offset = ParseInt(req.offset, DefaultOffset)
        /\ result.limit = ParseInt(req.limit, DefaultLimit)

\* A finished request of two tokens with different mints, whose two resolver
\* sub-tasks both fetched a record, with an offset given and the default limit.
C3_Witness ==
    /\ Succeeded
    /\ Len(tokens) = 2
    /\ tokens[1].mintAddress # tokens[2].mintAddress
    /\ Len(tasks) = 2
    /\ tasks[1].res # NoData
    /\ tasks[2].res # NoData
    /\ req.offset = "07"
    /\ result.offset = 7
    /\ result.limit = DefaultLimit

\* The identity lookup of this sub-task came back without an asset id.
IdentityFailed(task) == task.why = "identity"

\* What the output shows for a sub-task's own result.
ShownResult(task) ==
    ShownEntry(IF task.res = NoData THEN NoEntry ELSE FetchedEntry(task.res[1]))

\* C4: when the identity lookup of one sub-task fails, every sub-task of the
\* batch is done before the merge, each sibling's own result is what the
\* output shows at the sibling's page position, and the failed token is in
\* the output, marked unavailable.
C4_SiblingsSurviveIdentityFailure ==
    \A f \in BatchSlots :
        IdentityFailed(tasks[f]) =>
            /\ pc \in {"format", "done"} => AllDone
            /\ pc = "done" => Succeeded
            /\ Succeeded =>
                  /\ \A j \in BatchSlots \ {f} :
                         result.tokens[tasks[j].idx].val = ShownResult(tasks[j])
                  /\ result.tokens[tasks[f].idx].mint = tokens[tasks[f].idx].mintAddress
                  /\ result.tokens[tasks[f].idx].val = ShownEntry(NoEntry)

\* C5: a finished request is not a success only when the wallet is missing
\* or the inventory fetch failed; with a wallet and a successful inventory
\* fetch it is a success.
C5_OnlyWalletOrInventoryFail ==
    pc = "done" =>
        /\ resp # Response(200) => WalletMissing(req) \/ me = "failed"
        /\ ~WalletMissing(req) /\ me = "ok" => resp = Response(200)

\* C6: no sub-task ever ends with an exception; a sub-task whose identity
\* lookup failed, whose grade does not parse, one of whose posts raised or
\* timed out, or whose detail answers have a non-200 status or a malformed
\* body resolves to None; asyncio.gather of main never raises, so a request
\* whose inventory fetch succeeded ends with a 200.
C6_ResolverNeverRaises ==
    /\ \A j \in BatchSlots :
          /\ tasks[j].pc # "raised"
          /\ tasks[j].pc = "done" =>
                /\ tasks[j].why \in {"identity", "grade", "post", "status", "body"}
                      => tasks[j].res = NoData
                /\ tasks[j].det = "exc" \/ tasks[j].trn = "exc" => tasks[j].res = NoData
                /\ tasks[j].kind = "alt" /\ FormatGrade(tasks[j].grade) = ""
                      => tasks[j].res = NoData
    /\ pc = "done" /\ me = "ok" => resp = Response(200)

\* A finished request in which one sub-task had a post raise and another
\* got a malformed body.
C6_Witness ==
    /\ Succeeded
    /\ \E j \in BatchSlots : tasks[j].trn = "exc" /\ tasks[j].res = NoData
    /\ \E j \in BatchSlots : tasks[j].why = "body"

\* The cache store is misconfigured or failed on connect, execute or fetch.
CacheBroken == me = "ok" /\ (~env.db \/ db_conn \in {"failed", "open"})

\* C7: with the cache store misconfigured or unreachable the lookup result is
\* the empty mapping, every token of the page gets a slot in the fetch batch
\* (a resolver call or a placeholder), and the request ends with a 200.
C7_CacheFailureDegrades ==
    pc \notin {"start", "inventory", "cache"} /\ CacheBroken =>
        /\ db_map = EmptyMap
        /\ pc \in {"gather", "format", "done"} =>
              /\ Len(tasks) = Len(tokens)
              /\ \A i \in PageIndexes : tasks[i].idx = i
        /\ pc = "done" => resp = Response(200)

\* A finished request whose cache query raised and whose token was fetched.
C7_Witness ==
    /\ Succeeded
    /\ db_conn = "open"
    /\ \E j \in BatchSlots : tasks[j].res # NoData

\* C8: a request without a wallet address ends with a 400 and does no I/O: no
\* inventory call, no cache store connection, no valuation-service call.
C8_NoWalletRejectedBeforeIO ==
    WalletMissing(req) =>
        /\ me = "none"
        /\ db_conn = "none"
        /\ db_queries = 0
        /\ alt_calls = {}
        /\ pc = "done" => resp = Response(400)

\* C9: a cache-miss token lacking the certificate id, the grade or the
\* grading company has a placeholder slot in the batch that resolves to
\* nothing, never causes a valuation-service call, and is in the response
\* with its valuation marked unavailable.
C9_UngradedMissIsPlaceholder ==
    pc \in {"gather", "format", "done"} /\ me = "ok" =>
        \A i \in PageIndexes :
            ~InCache(i) /\ ~HasGrading(tokens[i]) =>
                /\ \E j \in BatchSlots :
                      /\ tasks[j].idx = i
                      /\ tasks[j].kind = "sleep"
                      /\ tasks[j].res = NoData
                /\ \A call \in alt_calls : call[1] # i
                /\ Succeeded =>
                      /\ result.tokens[i].mint = tokens[i].mintAddress
                      /\ result.tokens[i].val.alt_value = NA

\* The record the token at page position i has: its cache record, else the
\* record its own sub-task fetched, else none.
RecordOf(i) ==
    IF InCache(i) THEN Some(db_map[tokens[i].mintAddress])
    ELSE LET own == { j \in BatchSlots : tasks[j].idx = i /\ tasks[j].res # NoData } IN
         IF own = {} THEN NoData
         ELSE Some(FetchedEntry(tasks[CHOOSE j \in own : TRUE].res[1]))

\* A field of a record as the claim has it shown: the value itself, "N/A"
\* standing only for a value that is not there.
Held(value) == IF value = None THEN NA ELSE value

\* C10: each valuation field of an output entry is the value its cache record
\* holds if it has one, else the value its fetched record holds if it has
\* one, and "N/A" when it has neither; the link is built from the asset id
\* exactly when there is one.
C10_ValuationSources ==
    Succeeded =>
        \A i \in PageIndexes :
            LET val == result.tokens[i].val
                rec == RecordOf(i)
            IN  IF rec = NoData
                THEN /\ val.alt_value = NA
                     /\ val.cartel_avg = NA
                     /\ val.alt_range = NA
                     /\ val.alt_link = NA
                ELSE /\ val.alt_value = Held(rec[1].alt_value)
                     /\ val.cartel_avg = Held(rec[1].cartel_avg)
                     /\ val.alt_range = Held(rec[1].alt_range)
                     /\ val.alt_link = IF rec[1].alt_asset_id = None THEN NA
                                        ELSE LinkStr(rec[1].alt_asset_id.v)

\* A cache record holds a display value: a string that is not empty.
Holds(value) == value # Absent /\ value # ""

\* C13: each display field (name, grade, grade number, image) of the output
\* entry of a token with a cache record is the cache record's value when it
\* holds one and the inventory's value otherwise; the display fields of a
\* token without a cache record are the inventory's, whatever was fetched.
C13_DisplayFields ==
    Succeeded =>
        \A i \in PageIndexes :
            LET out == result.tokens[i]
                tk == tokens[i]
            IN  IF InCache(i)
                THEN LET rec == db_map[tk.mintAddress] IN
                     /\ out.name = IF Holds(rec.db_name) THEN rec.db_name ELSE tk.name
                     /\ out.grade = IF Holds(rec.db_grade) THEN rec.db_grade ELSE tk.grade
                     /\ out.grading_number =
                            IF Holds(rec.db_grade_num) THEN rec.db_grade_num ELSE tk.grade_num
                     /\ out.img = IF Holds(rec.db_img_url) THEN rec.db_img_url ELSE tk.image
                ELSE /\ out.name = tk.name
                     /\ out.grade = tk.grade
                     /\ out.grading_number = tk.grade_num
                     /\ out.img = tk.image

\* A finished request with a cached token whose row has an image and no name,
\* shown with the inventory's name and the cache's image, and a sibling that
\* fetched a record.
C13_Witness ==
    /\ Succeeded
    /\ \E i \in PageIndexes :
          /\ InCache(i)
          /\ db_map[tokens[i].mintAddress].db_name = Absent
          /\ result.tokens[i].name = "inv_name"
          /\ result.tokens[i].img = "db_img"
    /\ \E j \in BatchSlots : tasks[j].res # NoData

\* No mint was extracted from the page: it is empty, or no token has one.
NoMints == me = "ok" /\ TokenMints(tokens) = {}

\* C14: when no token identifier is extracted from the page, the cache
\* lookup gives the empty mapping without an error and without a cache store
\* connection or query, and the request goes on: every token gets a batch
\* slot and the request ends with a 200 listing every token.
C14_EmptyMintsSkipCache ==
    NoMints /\ pc \notin {"start", "inventory", "cache"} =>
        /\ db_map = EmptyMap
        /\ db_conn = "none"
        /\ db_queries = 0
        /\ resp # Response(500)
        /\ pc \in {"gather", "format", "done"} =>
              /\ Len(tasks) = Len(tokens)
              /\ \A i \in PageIndexes : tasks[i].idx = i
        /\ pc = "done" =>
              /\ resp = Response(200)
              /\ Len(result.tokens) = Len(tokens)

\* A finished request, the cache store configured, for a page of two tokens
\* without mintAddress, one of which fetched a record.
C14_Witness ==
    /\ Succeeded
    /\ env.db
    /\ Len(tokens) = 2
    /\ NoMints
    /\ db_conn = "none"
    /\ \E j \in BatchSlots : tasks[j].res # NoData

\* main is past the inventory fetch and the cache lookup, awaiting the batch
\* or beyond.
BatchStarted == me = "ok" /\ pc \in {"gather", "format", "done"}

\* C15: no valuation-service call is issued and no sub-task starts before the
\* inventory fetch and the cache lookup have both finished; the merge and the
\* response start only when every sub-task of the batch has resolved, with a
\* record or with nothing; no sub-task ends any other way (cancelled or
\* raised) when a sibling resolved to nothing.
C15_StepsAreBarriers ==
    /\ alt_calls # {} => BatchStarted
    /\ \A j \in BatchSlots : tasks[j].pc # "new" => BatchStarted
    /\ pc = "gather" => cartel_data_map = db_map /\ result = NoResult
    /\ pc = "format" \/ Succeeded =>
          \A j \in BatchSlots : tasks[j].pc = "done"
    /\ \A j \in BatchSlots : tasks[j].pc \in {"new", "id", "detail", "done"}

\* A finished request of two sub-tasks: the first resolved to nothing at the
\* identity lookup and the second fetched a record.
C15_Witness ==
    /\ Succeeded
    /\ Len(tasks) = 2
    /\ tasks[1].why = "identity"
    /\ tasks[1].res = NoData
    /\ tasks[2].res # NoData

\* The detail and transaction posts of this sub-task have been issued.
DetailPosted(task) ==
    << task.idx, "AssetDetails" >> \in alt_calls
        \/ << task.idx, "AssetMarketTransactions" >> \in alt_calls

\* C16: in each resolver sub-task the detail and transaction queries are
\* issued only after the identity lookup has completed with an asset id, and
\* the sub-task resolves only after both of them have completed (returned or
\* failed), also when one of them fails while the other is in flight.
C16_ResolvesAfterBothCalls ==
    \A j \in BatchSlots :
        /\ DetailPosted(tasks[j]) =>
              /\ tasks[j].pc \in {"detail", "done"}
              /\ tasks[j].asset = AssetOf(tasks[j].cert)
              /\ << tasks[j].idx, "Cert" >> \in alt_calls
        /\ tasks[j].pc = "done" /\ DetailPosted(tasks[j]) =>
              /\ tasks[j].det # "flight"
              /\ tasks[j].trn # "flight"

\* C17: a request opens the cache store connection and runs the bulk query
\* at most once, only during the cache lookup, and a connection that was
\* opened is closed by the time the request returns its response, also when
\* the query or the row fetch raised.
C17_ConnectionClosed ==
    /\ db_queries <= 1
    /\ db_conn # "none" => me = "ok" /\ pc \notin {"start", "inventory", "cache"}
    /\ db_queries = 1 => db_conn \in {"open", "closed"}
    /\ pc = "done" => db_conn \in {"none", "failed", "closed"}

\* C18: tasks and tokens_to_fetch have equal length and matching positions,
\* and every fetched record the output shows for a token without a cache
\* record is the record that token's own sub-task resolved (from its own
\* certificate id, grade and company), for every completion order and every
\* page, tokens without a mintAddress or sharing one included.
C18_ResultAttribution ==
    /\ Len(tasks) = Len(tokens_to_fetch)
    /\ \A j \in BatchSlots : tokens_to_fetch[j] = tokens[tasks[j].idx].mintAddress
    /\ Succeeded =>
          \A i \in PageIndexes :
              ~InCache(i) /\ result.tokens[i].val # ShownEntry(NoEntry) =>
                  \E j \in BatchSlots :
                      /\ tasks[j].idx = i
                      /\ tasks[j].res # NoData
                      /\ result.tokens[i].val = ShownResult(tasks[j])

\* A post of this sub-task hit the timeout (or failed otherwise).
TimedOut(task) == task.det = "exc" \/ task.trn = "exc"

\* C19: a call that times out makes its sub-task resolve to nothing, and once
\* the inventory fetch and the cache lookup have returned, the batch
\* eventually completes and the request eventually returns its response.
C19_BatchEventuallyCompletes ==
    /\ [](\A j \in BatchSlots :
            TimedOut(tasks[j]) => tasks[j].pc = "done" /\ tasks[j].res = NoData)
    /\ (me = "ok" /\ pc = "batch") ~> (AllDone /\ pc = "done" /\ resp = Response(200))

\* A finished request one of whose sub-tasks had its details post time out
\* while the transactions post was still out, and another fetched a record.
C19_Witness ==
    /\ Succeeded
    /\ \E j \in BatchSlots :
          /\ tasks[j].det = "exc"
          /\ tasks[j].trn = "flight"
          /\ tasks[j].res = NoData
    /\ \E j \in BatchSlots : tasks[j].res # NoData

\* C21: when ALT_AUTH_TOKEN or ALT_COOKIE is not configured, no call to the
\* valuation service is ever issued (not even the identity lookup), every
\* resolver sub-task resolves to nothing as soon as it starts, and a request
\* whose inventory fetch succeeded ends with a 200 in which every token
\* without a cache record is marked unavailable.
C21_NoCredentialsNoCalls ==
    ~env.alt =>
        /\ alt_calls = {}
        /\ \A j \in BatchSlots :
              /\ tasks[j].pc \in {"new", "done"}
              /\ tasks[j].res = NoData
              /\ tasks[j].pc = "done" /\ tasks[j].kind = "alt" => tasks[j].why = "creds"
        /\ pc = "done" /\ me = "ok" =>
              /\ resp = Response(200)
              /\ \A i \in PageIndexes :
                    ~InCache(i) =>
                        /\ result.tokens[i].mint = tokens[i].mintAddress
                        /\ result.tokens[i].val = ShownEntry(NoEntry)

\* A finished request without credentials: a token with all three attributes
\* and no cache record is shown unavailable beside a sibling valued from the
\* cache.
C21_Witness ==
    /\ Succeeded
    /\ ~env.alt
    /\ \E j \in BatchSlots :
          /\ tasks[j].kind = "alt"
          /\ tasks[j].why = "creds"
          /\ result.tokens[tasks[j].idx].val.alt_value = NA
    /\ \E i \in PageIndexes :
          InCache(i) /\ result.tokens[i].val.alt_value = Num(100)

(***************************************************************************)
(* Properties of the computation of lines 110-134 (CalcSpec).              *)
(***************************************************************************)
\* The price aggregation has run.
Priced == calc.pc = "price"

Prices(txs) == [i \in 1..Len(txs) |-> txs[i].price]

\* The sum of the prices at the positions idxs of a list.
RECURSIVE PriceTotal(_, _)
PriceTotal(txs, idxs) ==
    IF idxs = {} THEN 0
    ELSE LET i == CHOOSE x \in idxs : TRUE IN txs[i].price + PriceTotal(txs, idxs \ {i})

\* The number q is the mean of k values whose sum is total.
IsMean(q, total, k) == q.t = "num" /\ q.w >= 1 /\ q.v * k = total * q.w

\* C11: for every supply <= 3000 (3000 and the default 0 included) and every
\* transaction list, the average price is the arithmetic mean of the prices
\* of the first min(4, n) transactions in input order, the later ones do not
\* change it, and it is 0 for the empty list; supply 500 with prices
\* 10, 12, 14, 16, 18 gives 13.
C11_LowSupplyAverage ==
    Priced /\ calc.supply <= 3000 =>
        LET n == Len(calc.txs)
            k == IF n < 4 THEN n ELSE 4
        IN  /\ k = 0 => calc.avg_price = Num(0)
            /\ k > 0 => IsMean(calc.avg_price, PriceTotal(calc.txs, 1..k), k)
            /\ calc.avg_price = AveragePrice(SubSeq(calc.txs, 1, k), calc.supply, calc.now)
            /\ calc.supply = 500 /\ Prices(calc.txs) = << 10, 12, 14, 16, 18 >> =>
                   calc.avg_price = Num(13)

\* Supply 500 and the prices 10, 12, 14, 16, 18: the average is 13.
C11_Witness ==
    /\ Priced
    /\ calc.supply = 500
    /\ Prices(calc.txs) = << 10, 12, 14, 16, 18 >>
    /\ calc.avg_price = Num(13)

\* The transaction's date lies within the 15 days that end at the current
\* time: at most 14 days back, or 15 days back when the time is midnight.
DatedInLast15Days(tx, now) == tx.age <= 14 \/ (tx.age = 15 /\ now = "midnight")

\* The positions of the transactions of calendar day d that lie in the window.
DayIndexes(txs, d, now) ==
    { i \in 1..Len(txs) : txs[i].age = d /\ DatedInLast15Days(txs[i], now) }

WindowDaysOf(txs, now) ==
    { txs[i].age : i \in { j \in 1..Len(txs) : DatedInLast15Days(txs[j], now) } }

\* The product of the numbers of transactions of the days.
RECURSIVE CountProduct(_, _, _)
CountProduct(txs, days, now) ==
    IF days = {} THEN 1
    ELSE LET d == CHOOSE x \in days : TRUE IN
         Cardinality(DayIndexes(txs, d, now)) * CountProduct(txs, days \ {d}, now)

\* The sum of the days' mean prices, times scale (a multiple of every day's
\* number of transactions).
RECURSIVE ScaledDayMeans(_, _, _, _)
ScaledDayMeans(txs, days, now, scale) ==
    IF days = {} THEN 0
    ELSE LET d == CHOOSE x \in days : TRUE
             idxs == DayIndexes(txs, d, now)
         IN  PriceTotal(txs, idxs) * (scale \div Cardinality(idxs))
             + ScaledDayMeans(txs, days \ {d}, now, scale)

\* C12: for every supply > 3000 the average price is the mean, over the
\* calendar days that have a transaction dated within the last 15 days of
\* the current time, of the day's mean price over exactly those
\* transactions: each day weighs the same, older transactions are left out,
\* and the result is 0 when the window is empty; supply 4000 with
\* (day1, 10), (day1, 12), (day2, 20) gives 15.5.
C12_HighSupplyAverage ==
    Priced /\ calc.supply > 3000 =>
        /\ \A days \in { WindowDaysOf(calc.txs, calc.now) } :
           \A scale \in { CountProduct(calc.txs, days, calc.now) } :
               /\ days = {} => calc.avg_price = Num(0)
               /\ days # {} =>
                      IsMean(calc.avg_price,
                             ScaledDayMeans(calc.txs, days, calc.now, scale),
                             Cardinality(days) * scale)
        /\ calc.supply = 4000
             /\ calc.txs = << Tx(1, 0, 10), Tx(1, 18, 12), Tx(2, 9, 20) >> =>
               calc.avg_price = [t |-> "num", v |-> 31, w |-> 2]

\* Supply 4000, two transactions of one day at 10 and 12 and one of the next
\* day at 20: the average is 31/2.
C12_Witness ==
    /\ Priced
    /\ calc.supply = 4000
    /\ calc.txs = << Tx(1, 0, 10), Tx(1, 18, 12), Tx(2, 9, 20) >>
    /\ calc.avg_price = [t |-> "num", v |-> 31, w |-> 2]

\* The supply selection has run.
SupplySelected == calc.pc \in {"supply", "price"}

\* The positions of the population entries of the requested company whose
\* grade string is the requested grade "9" with one decimal place.
Matching ==
    { i \in 1..Len(calc.pops) :
        calc.pops[i].gradingCompany = calc.company /\ calc.pops[i].gradeNumber = "9.0" }

\* C20: the supply is the count of the first population entry whose company
\* is the requested one and whose grade string is the requested grade with
\* one decimal place, 0 when there is none; entries of another company or
\* grade do not count; the supply alone decides the aggregation branch:
\* the 15-day daily mean above 3000, the mean of the first four otherwise.
C20_SupplySelection ==
    SupplySelected =>
        /\ Matching = {} => calc.supply = 0
        /\ Matching # {} =>
               \E first \in Matching :
                   /\ \A i \in Matching : first <= i
                   /\ calc.supply = calc.pops[first].count
        /\ Priced =>
               \A txs \in {calc.txs}, now \in {calc.now} :
                   calc.avg_price =
                       IF calc.supply > 3000 THEN WindowAverage(txs, now)
                       ELSE RecentAverage(txs)

\* An entry of the company with the grade string "9" and a count of 9000
\* comes first and is passed over for the entry "9.0" with a count of 500.
C20_Witness ==
    /\ Priced
    /\ calc.company = "PSA"
    /\ calc.pops = << Pop("PSA", "9", 9000), Pop("PSA", "9.0", 500) >>
    /\ calc.supply = 500
    /\ calc.avg_price = RecentAverage(calc.txs)
    /\ Len(calc.txs) = 5

====
